---- MODULE Spec2Model ----
(***************************************************************************)
(* State-machine model of the customer-service dashboard's stores:         *)
(*   - the filter store (FilterContext.tsx): chartFilters, dateRange and   *)
(*     the persisted preset collection;                                    *)
(*   - the SLA threshold store (SLAContext): thresholds, persisted;        *)
(*   - the controls that drive them (FilterPresets, DateRangePicker,       *)
(*     SLASettings, CommandPalette, Charts);                               *)
(*   - the export filter of DashboardContent;                              *)
(*   - the KPI cards (KPICards) and the table (DataTable) that            *)
(*     DashboardContent mounts when its loading timer has fired.          *)
(*                                                                         *)
(* One action is one event handler, run to completion together with the    *)
(* React state updates and effects it triggers (React batches the updates  *)
(* of one handler into one render).                                        *)
(*                                                                         *)
(* Time is counted in ticks; TicksPerDay ticks make a calendar day.  A     *)
(* Date object is [k |-> "Date", v |-> ticks since the epoch, UTC]; the    *)
(* ISO string JSON.stringify makes of it is [k |-> "Str", v |-> ticks];    *)
(* null is [k |-> "null", v |-> 0].  A text is a sequence of characters.   *)
(***************************************************************************)
EXTENDS Integers, Sequences, FiniteSets, TLC

VARIABLES
    now,            \* the wall clock, Date.now()
    tz,             \* offset of local time from UTC, in ticks
    app,            \* "running", or "crashed" when a provider threw while mounting
    chartFilters,   \* FilterContext state
    dateRange,      \* FilterContext state
    presets,        \* FilterContext state
    presetStore,    \* localStorage['filterPresets']
    thresholds,     \* SLAContext state
    slaStore,       \* localStorage['slaThresholds']
    fpOpen,         \* FilterPresets.isOpen
    showSaveInput,  \* FilterPresets.showSaveInput
    table,          \* DataTable's local state; not mounted while the page is loading
    last,           \* history: the operation that produced this state, and its arguments
    snap            \* history: the state captured by the latest savePreset, while the
                    \* operations since are only filter changes and loads

vars == <<now, tz, app, chartFilters, dateRange, presets, presetStore,
          thresholds, slaStore, fpOpen, showSaveInput, table, last, snap>>

----------------------------------------------------------------------------
(* Bounds of the model *)

MaxTicks == 1       \* the clock advances at most this many ticks in a behaviour
MaxPresets == 2     \* the preset collection is explored up to this length
StartDay == 10      \* the calendar day on which the session starts
TicksPerDay == 2    \* clock resolution
DaysPerYear == 365  \* calendar length used by the 'ytd' preset

----------------------------------------------------------------------------
(* Values *)

NULL == "null"

NullDate == [k |-> "null", v |-> 0]

DateObj(t) == [k |-> "Date", v |-> t]

IsoStr(t) == [k |-> "Str", v |-> t]

Dims == {"vertical", "status", "issueCategory", "accountHealth"}

defaultDateRange == [start |-> NullDate, end |-> NullDate, preset |-> "all"]

defaultChartFilters ==
    [vertical |-> NULL, status |-> NULL, issueCategory |-> NULL, accountHealth |-> NULL]

defaultThresholds == [responseTimeHours |-> 12, resolutionTimeHours |-> 72]

\* The record collection handed to the views (data/data): a sample of three
\* requests; requestDate is the calendar day the "YYYY-MM-DD" string names.
serviceRequests ==
    << [requestId |-> <<"S", "R", "-", "1">>, accountName |-> <<"A", "c", "m", "e">>,
        urgency |-> "High", priority |-> "Low", requestDate |-> 2, vertical |-> "Restaurant",
        status |-> "Resolved", issueCategory |-> "API Error",
        accountHealth |-> "Advocate", timeToRespond |-> 5, timeToResolution |-> 30],
       [requestId |-> <<"S", "R", "-", "2">>, accountName |-> <<"B", "o", "b">>,
        urgency |-> "Low", priority |-> "Medium", requestDate |-> 5, vertical |-> "Fuel",
        status |-> "In Progress", issueCategory |-> "API Error",
        accountHealth |-> "Churn Risk", timeToRespond |-> 20, timeToResolution |-> 80],
       [requestId |-> <<"S", "R", "-", "3">>, accountName |-> <<"A", "c", "m", "e">>,
        urgency |-> "High", priority |-> "High", requestDate |-> 10, vertical |-> "Restaurant",
        status |-> "In Progress", issueCategory |-> "API Error",
        accountHealth |-> "Advocate", timeToRespond |-> 12, timeToResolution |-> 72] >>

----------------------------------------------------------------------------
(* JavaScript semantics used by the code *)

\* if (x): a Date object and a non-empty string are truthy, null is not.
Truthy(x) == x.k # "null"

\* new Date("YYYY-MM-DD"): midnight UTC of that day.
ParseDay(day) == DateObj(day * TicksPerDay)

\* a < b for a Date a: b is converted to a number; a Date gives its time
\* value, an ISO string gives NaN, and a comparison with NaN is false.
JsLess(a, b) == b.k = "Date" /\ a.v < b.v

JsGreater(a, b) == b.k = "Date" /\ a.v > b.v

\* new Date(y, m, d) of the clock reading t: local midnight, as a UTC time.
LocalMidnight(t, zone) == ((t + zone) \div TicksPerDay) * TicksPerDay - zone

\* new Date(y, 0, 1): local midnight of 1 January of t's year.
YearStart(t, zone) ==
    LocalMidnight(t, zone)
      - (((t + zone) \div TicksPerDay) % DaysPerYear) * TicksPerDay

\* String.prototype.trim on a text.
RECURSIVE TrimLeft(_)
TrimLeft(s) == IF s # <<>> /\ Head(s) = " " THEN TrimLeft(Tail(s)) ELSE s

RECURSIVE TrimRight(_)
TrimRight(s) ==
    IF s # <<>> /\ s[Len(s)] = " " THEN TrimRight(SubSeq(s, 1, Len(s) - 1)) ELSE s

Trim(s) == TrimRight(TrimLeft(s))

Digits == <<"0", "1", "2", "3", "4", "5", "6", "7", "8", "9">>

IsDigit(c) == \E i \in 1..10 : Digits[i] = c

DigitVal(c) == (CHOOSE i \in 1..10 : Digits[i] = c) - 1

RECURSIVE DigitPrefix(_, _)
\* the value of the longest prefix of digits of s, continuing from acc
DigitPrefix(s, acc) ==
    IF s # <<>> /\ IsDigit(Head(s))
    THEN DigitPrefix(Tail(s), acc * 10 + DigitVal(Head(s)))
    ELSE acc

\* parseInt(text): leading blanks skipped, an optional sign, then digits up
\* to the first other character; NaN when there is no digit.
ParseInt(text) ==
    LET s == TrimLeft(text)
        neg == s # <<>> /\ Head(s) = "-"
        body == IF s # <<>> /\ Head(s) \in {"-", "+"} THEN Tail(s) ELSE s
    IN  IF body = <<>> \/ ~IsDigit(Head(body))
        THEN [nan |-> TRUE, n |-> 0]
        ELSE [nan |-> FALSE,
              n |-> IF neg THEN 0 - DigitPrefix(body, 0) ELSE DigitPrefix(body, 0)]

\* x || d for a number x: NaN and 0 are falsy.
OrDefault(x, d) == IF x.nan \/ x.n = 0 THEN d ELSE x.n

----------------------------------------------------------------------------
(* Serialization to and from localStorage *)

\* Date.prototype.toJSON: a Date becomes its ISO string; strings and null stay.
DateToJson(x) == IF x.k = "Date" THEN IsoStr(x.v) ELSE x

DateRangeToJson(dr) ==
    [start |-> DateToJson(dr.start), end |-> DateToJson(dr.end), preset |-> dr.preset]

PresetToJson(p) == [p EXCEPT !.dateRange = DateRangeToJson(p.dateRange)]

\* A stored item: absent (getItem gives null), the empty string, text that
\* is not JSON, or JSON text, held as the value JSON.parse makes of it.
Absent == [k |-> "absent", v |-> <<>>]

EmptyText == [k |-> "empty", v |-> <<>>]

Garbage == [k |-> "garbage", v |-> <<>>]

\* JSON.stringify(presets)
StringifyPresets(ps) == [k |-> "json", v |-> [i \in 1..Len(ps) |-> PresetToJson(ps[i])]]

\* JSON.stringify(thresholds)
StringifyThresholds(th) == [k |-> "json", v |-> th]

\* saved ? JSON.parse(saved) : fallback  throws on text that is not JSON
InitThrows(item) == item.k = "garbage"

InitValue(item, fallback) == IF item.k = "json" THEN item.v ELSE fallback

----------------------------------------------------------------------------
(* Filter engine *)

\* The date-range test shared by DashboardContent, Charts and DataTable.
PassesDateRange(r, dr) ==
    IF dr.preset # "all" /\ (Truthy(dr.start) \/ Truthy(dr.end))
    THEN /\ ~(Truthy(dr.start) /\ JsLess(ParseDay(r.requestDate), dr.start))
         /\ ~(Truthy(dr.end) /\ JsGreater(ParseDay(r.requestDate), dr.end))
    ELSE TRUE

\* Mutant: the four predicates are ORed.
PassesChartFilters_AnyDim(r, cf) ==
    \/ \A d \in Dims : cf[d] = NULL
    \/ \E d \in Dims : cf[d] # NULL /\ r[d] = cf[d]

PassesChartFilters(r, cf) ==
    /\ cf.vertical # NULL => r.vertical = cf.vertical
    /\ cf.status # NULL => r.status = cf.status
    /\ cf.issueCategory # NULL => r.issueCategory = cf.issueCategory
    /\ cf.accountHealth # NULL => r.accountHealth = cf.accountHealth

\* DataTable.filteredData, the chart-filter clauses of its predicate.
TableMatchesChart(item, cf) ==
    LET matchesChartVertical == cf.vertical = NULL \/ item.vertical = cf.vertical
        matchesChartStatus == cf.status = NULL \/ item.status = cf.status
        matchesChartCategory ==
            cf.issueCategory = NULL \/ item.issueCategory = cf.issueCategory
        matchesChartHealth ==
            cf.accountHealth = NULL \/ item.accountHealth = cf.accountHealth
    IN  matchesChartVertical /\ matchesChartStatus
          /\ matchesChartCategory /\ matchesChartHealth

\* DashboardContent.filteredData: what the export buttons receive.
FilteredData(data, cf, dr) ==
    LET Keep(r) == PassesDateRange(r, dr) /\ PassesChartFilters(r, cf)
    IN  SelectSeq(data, Keep)

\* Charts.filteredData: the charts group the date-filtered records.
ChartsData(data, dr) ==
    LET Keep(r) == PassesDateRange(r, dr)
    IN  SelectSeq(data, Keep)

\* Mutant: only the first two dimensions are looked at.
hasActiveChartFilters_TwoDims(cf) == cf.vertical # NULL \/ cf.status # NULL

\* Mutant: a value seen for the first time is put in front of the others.
GroupBy_Prepend(data, dim) ==
    LET F[k \in 0..Len(data)] ==
            IF k = 0 THEN <<>>
            ELSE LET prev == F[k - 1]
                     name == data[k][dim]
                 IN  IF \E j \in 1..Len(prev) : prev[j].name = name
                     THEN [j \in 1..Len(prev) |->
                             IF prev[j].name = name
                             THEN [name |-> name, value |-> prev[j].value + 1]
                             ELSE prev[j]]
                     ELSE <<[name |-> name, value |-> 1]>> \o prev
    IN  F[Len(data)]

\* Charts.verticalData and its three siblings: counts[item[dim]] is
\* incremented record by record, and Object.entries(counts) lists the keys
\* in the order in which they were first written (none of the category
\* names is an integer-like key).
GroupBy(data, dim) ==
    LET F[k \in 0..Len(data)] ==
            IF k = 0 THEN <<>>
            ELSE LET prev == F[k - 1]
                     name == data[k][dim]
                 IN  IF \E j \in 1..Len(prev) : prev[j].name = name
                     THEN [j \in 1..Len(prev) |->
                             IF prev[j].name = name
                             THEN [name |-> name, value |-> prev[j].value + 1]
                             ELSE prev[j]]
                     ELSE Append(prev, [name |-> name, value |-> 1])
    IN  F[Len(data)]

\* KPICards.filteredData: the records the cards aggregate.
KPIFilteredData(data, dr) ==
    IF dr.preset = "all" \/ (~Truthy(dr.start) /\ ~Truthy(dr.end))
    THEN data
    ELSE LET Keep(d) ==
                 /\ ~(Truthy(dr.start) /\ JsLess(ParseDay(d.requestDate), dr.start))
                 /\ ~(Truthy(dr.end) /\ JsGreater(ParseDay(d.requestDate), dr.end))
         IN  SelectSeq(data, Keep)

\* KPICards.totalRequests
totalRequests(data, dr) == Len(KPIFilteredData(data, dr))

\* Object.values(chartFilters).some(v => v !== null)
hasActiveChartFilters(cf) == \E d \in Dims : cf[d] # NULL

\* FilterPresets.canSave
canSave(cf, dr) == hasActiveChartFilters(cf) \/ dr.preset # "all"

\* Mutant: the bounds are taken from the clock reading, not from its day.
getPresetDates_FromNow(preset, t, zone) ==
    CASE preset = "last7" -> [start |-> DateObj(t - 7 * TicksPerDay), end |-> DateObj(t)]
      [] preset = "last30" -> [start |-> DateObj(t - 30 * TicksPerDay), end |-> DateObj(t)]
      [] preset = "last90" -> [start |-> DateObj(t - 90 * TicksPerDay), end |-> DateObj(t)]
      [] preset = "ytd" -> [start |-> DateObj(YearStart(t, zone)), end |-> DateObj(t)]
      [] OTHER -> [start |-> NullDate, end |-> NullDate]

\* DateRangePicker.getPresetDates at clock reading t in time zone zone.
getPresetDates(preset, t, zone) ==
    LET today == LocalMidnight(t, zone)
    IN  CASE preset = "last7" ->
               [start |-> DateObj(today - 7 * TicksPerDay), end |-> DateObj(today)]
          [] preset = "last30" ->
               [start |-> DateObj(today - 30 * TicksPerDay), end |-> DateObj(today)]
          [] preset = "last90" ->
               [start |-> DateObj(today - 90 * TicksPerDay), end |-> DateObj(today)]
          [] preset = "ytd" ->
               [start |-> DateObj(YearStart(t, zone)), end |-> DateObj(today)]
          [] OTHER -> [start |-> NullDate, end |-> NullDate]

----------------------------------------------------------------------------
(* SLAContext: the breach predicates under the thresholds th *)

\* Mutant: a record exactly at the response threshold counts as a breach.
isBreachingResponse_AtThreshold(request, th) ==
    request.timeToRespond >= th.responseTimeHours

isBreachingResponse(request, th) == request.timeToRespond > th.responseTimeHours

isBreachingResolution(request, th) == request.timeToResolution > th.resolutionTimeHours

isBreachingSLA(request, th) ==
    isBreachingResponse(request, th) \/ isBreachingResolution(request, th)

\* data.filter(isBreachingSLA).length
getBreachCount(data, th) ==
    LET Breaching(r) == isBreachingSLA(r, th)
    IN  Len(SelectSeq(data, Breaching))

----------------------------------------------------------------------------
(* KPICards: the sparkline series and the previous period *)

DefaultSparklineDays == 7

DefaultPeriodDays == 30

RECURSIVE Gcd(_, _)
Gcd(a, b) == IF b = 0 THEN a ELSE Gcd(b, a % b)

\* A JavaScript number that is a quotient of two naturals, in lowest terms.
Quotient(n, d) == [num |-> n \div Gcd(n, d), den |-> d \div Gcd(n, d)]

Whole(n) == [num |-> n, den |-> 1]

\* dayData.reduce((sum, d) => sum + d[field], 0)
SumOf(dayData, field) ==
    LET F[k \in 0..Len(dayData)] == IF k = 0 THEN 0 ELSE F[k - 1] + dayData[k][field]
    IN  F[Len(dayData)]

CountWhere(dayData, field, value) ==
    LET Is(d) == d[field] = value
    IN  Len(SelectSeq(dayData, Is))

SparklineMetrics ==
    {"count", "resolved", "inProgress", "responseTime", "resolutionTime",
     "churnRisk", "slaBreaches"}

\* The switch of generateSparklineData: the point of one day.
SparklinePoint(dayData, metric) ==
    CASE metric = "count" -> Whole(Len(dayData))
      [] metric = "resolved" -> Whole(CountWhere(dayData, "status", "Resolved"))
      [] metric = "inProgress" -> Whole(CountWhere(dayData, "status", "In Progress"))
      [] metric = "responseTime" ->
           IF Len(dayData) > 0
           THEN Quotient(SumOf(dayData, "timeToRespond"), Len(dayData)) ELSE Whole(0)
      [] metric = "resolutionTime" ->
           IF Len(dayData) > 0
           THEN Quotient(SumOf(dayData, "timeToResolution"), Len(dayData)) ELSE Whole(0)
      [] metric = "churnRisk" -> Whole(CountWhere(dayData, "accountHealth", "Churn Risk"))
      [] metric = "slaBreaches" ->
           LET Breaches(d) == d.timeToRespond > 12 \/ d.timeToResolution > 72
           IN  Whole(Len(SelectSeq(dayData, Breaches)))

\* date.toISOString().split('T')[0]: the UTC calendar day of the instant t.
IsoDay(t) == t \div TicksPerDay

\* data.filter(d => d.requestDate === dateStr)
DayData(data, dateStr) ==
    LET On(d) == d.requestDate = dateStr
    IN  SelectSeq(data, On)

SparklineFallback ==
    << Whole(1), Whole(2), Whole(1), Whole(3), Whole(2), Whole(4), Whole(3) >>

\* generateSparklineData at the clock reading t: date.setDate(getDate() - i)
\* moves the instant back by i days, keeping the time of day.
generateSparklineData(data, metric, days, t) ==
    LET result == [k \in 1..days |->
                     SparklinePoint(DayData(data, IsoDay(t - (days - k) * TicksPerDay)),
                                    metric)]
    IN  IF \A k \in 1..days : result[k].num = 0 THEN SparklineFallback ELSE result

\* The two bounds of getPreviousPeriodData: today.setDate(getDate() - days * 2)
\* and today.setDate(getDate() - days) on copies of new Date().
PreviousWindow(days, t) ==
    [start |-> DateObj(t - days * 2 * TicksPerDay), end |-> DateObj(t - days * TicksPerDay)]

\* getPreviousPeriodData at the clock reading t: both bounds keep the time
\* of day of t, the record's date is midnight UTC of its day.
getPreviousPeriodData(data, days, t) ==
    LET periodStart == PreviousWindow(days, t).start
        periodEnd == PreviousWindow(days, t).end
        Keep(d) == /\ ~JsLess(ParseDay(d.requestDate), periodStart)
                   /\ JsLess(ParseDay(d.requestDate), periodEnd)
    IN  SelectSeq(data, Keep)

\* A record dated DefaultPeriodDays before the day the session starts on, and
\* the collection handed to the cards when it holds such a record.
OlderRequest ==
    [requestId |-> <<"S", "R", "-", "0">>, accountName |-> <<"B", "o", "b">>,
     urgency |-> "Low", priority |-> "Low", requestDate |-> StartDay - DefaultPeriodDays,
     vertical |-> "Fuel", status |-> "Resolved", issueCategory |-> "Refund Request",
     accountHealth |-> "Engaged", timeToRespond |-> 3, timeToResolution |-> 10]

cardRequests == <<OlderRequest>> \o serviceRequests

\* The number a division of two JavaScript numbers gives when the divisor is
\* zero: 0 / 0 is NaN, a positive number / 0 is Infinity.
NaN == [num |-> 0, den |-> 0]

Infinity == [num |-> 1, den |-> 0]

IsFiniteNumber(q) == q.den # 0

\* a / b for two counts.
Divide(a, b) == IF b = 0 THEN (IF a = 0 THEN NaN ELSE Infinity) ELSE Quotient(a, b)

\* q * k for a number q and a whole k; NaN and Infinity stay what they are.
Times(q, k) == IF IsFiniteNumber(q) THEN Quotient(q.num * k, q.den) ELSE q

\* KPICards: the mean of a field over the filtered data, 0 for no data.
Average(data, field) ==
    IF Len(data) > 0 THEN Quotient(SumOf(data, field), Len(data)) ELSE Whole(0)

\* KPICards: the values of the seven cards over the records data.
Aggregates(data, th) ==
    [totalRequests |-> Whole(Len(data)),
     resolvedCount |-> Whole(CountWhere(data, "status", "Resolved")),
     inProgressCount |-> Whole(CountWhere(data, "status", "In Progress")),
     avgResponseTime |-> Average(data, "timeToRespond"),
     avgResolutionTime |-> Average(data, "timeToResolution"),
     churnRiskCount |-> Whole(CountWhere(data, "accountHealth", "Churn Risk")),
     slaBreachCount |-> Whole(getBreachCount(data, th))]

\* KPICards: the number in the subtitle of the 'Resolved' and 'In Progress'
\* cards, (count / totalRequests) * 100.
SubtitlePercent(count, total) == Times(Divide(count, total), 100)

NoChange == [k |-> "null"]

\* KPICard.percentChange of two numbers: null when previousValue is 0.
percentChange(value, previousValue) ==
    IF previousValue.num # 0
    THEN [k |-> "number",
          n |-> Quotient(100 * (value.num * previousValue.den
                                  - previousValue.num * value.den),
                         value.den * previousValue.num)]
    ELSE NoChange

\* KPICards.previousData: memoized on [data], so computed once, at the clock
\* reading m at which the cards were mounted.
previousData(data, m) == getPreviousPeriodData(data, DefaultPeriodDays, m)

\* What KPICards renders from data in the store state (dr, th) at the clock
\* reading t, having been mounted at m.
KPICards(data, dr, th, t, m) ==
    LET filteredData == KPIFilteredData(data, dr)
        current == Aggregates(filteredData, th)
        previous == Aggregates(previousData(data, m), th)
    IN  [current |-> current,
         previous |-> previous,
         resolvedSubtitle |->
             SubtitlePercent(current.resolvedCount.num, current.totalRequests.num),
         inProgressSubtitle |->
             SubtitlePercent(current.inProgressCount.num, current.totalRequests.num),
         percentChange |->
             [f \in DOMAIN current |-> percentChange(current[f], previous[f])],
         sparklineData |->
             [metric \in SparklineMetrics |->
                 generateSparklineData(filteredData, metric, DefaultSparklineDays, t)]]

----------------------------------------------------------------------------
(* History variables *)

Log(op, key, val, id) == last' = [op |-> op, key |-> key, val |-> val, id |-> id]

NoSnap ==
    [valid |-> FALSE, id |-> 0,
     filters |-> defaultChartFilters, dateRange |-> defaultDateRange]

----------------------------------------------------------------------------
(* FilterContext: the operations of the filter store *)

\* presets.find(p => p.id === id): the index of the first match, 0 for none.
FindPreset(ps, id) ==
    IF \E i \in 1..Len(ps) : ps[i].id = id
    THEN CHOOSE i \in 1..Len(ps) :
            ps[i].id = id /\ \A j \in 1..(i - 1) : ps[j].id # id
    ELSE 0

\* Mutant: the spread of prev is forgotten.
WithFilter_DropsOthers(prev, key, value) == [defaultChartFilters EXCEPT ![key] = value]

\* setChartFilters(prev => ({ ...prev, [key]: value }))
WithFilter(prev, key, value) == [prev EXCEPT ![key] = value]

setChartFilter(key, value) ==
    /\ chartFilters' = WithFilter(chartFilters, key, value)
    /\ UNCHANGED <<dateRange, presets, presetStore, snap>>
    /\ Log("setChartFilter", key, value, 0)

\* Mutant: the status dimension survives the clear.
clearChartFilters_KeepsStatus ==
    /\ chartFilters' = [defaultChartFilters EXCEPT !.status = chartFilters.status]
    /\ UNCHANGED <<dateRange, presets, presetStore, snap>>
    /\ Log("clearChartFilters", "",
           IF hasActiveChartFilters(chartFilters) THEN "active" ELSE "none", 0)

clearChartFilters ==
    /\ chartFilters' = defaultChartFilters
    /\ UNCHANGED <<dateRange, presets, presetStore, snap>>
    /\ Log("clearChartFilters", "",
           IF hasActiveChartFilters(chartFilters) THEN "active" ELSE "none", 0)

setDateRange(range) ==
    /\ dateRange' = range
    /\ UNCHANGED <<chartFilters, presets, presetStore, snap>>
    /\ Log("setDateRange", "", "", 0)

\* id: Date.now().toString(); the decimal string of a number names exactly
\* that number, so the id is held as the clock reading itself.
NewPreset(name) ==
    [id |-> now, name |-> name, filters |-> chartFilters, dateRange |-> dateRange]

savePreset(name) ==
    LET updated == Append(presets, NewPreset(name))
    IN  /\ presets' = updated
        /\ presetStore' = StringifyPresets(updated)
        /\ UNCHANGED <<chartFilters, dateRange>>
        /\ snap' = [valid |-> TRUE, id |-> now,
                    filters |-> chartFilters, dateRange |-> dateRange]
        /\ Log("savePreset", "", "", now)

\* Mutant: only the chart filters are replaced.
loadPreset_FiltersOnly(id) ==
    LET i == FindPreset(presets, id)
    IN  /\ IF i # 0
           THEN chartFilters' = presets[i].filters
           ELSE UNCHANGED chartFilters
        /\ UNCHANGED <<dateRange, presets, presetStore, snap>>
        /\ Log("loadPreset", "", "", id)

loadPreset(id) ==
    LET i == FindPreset(presets, id)
    IN  /\ IF i # 0
           THEN /\ chartFilters' = presets[i].filters
                /\ dateRange' = presets[i].dateRange
           ELSE UNCHANGED <<chartFilters, dateRange>>
        /\ UNCHANGED <<presets, presetStore, snap>>
        /\ Log("loadPreset", "", "", id)

\* presets.filter(p => p.id !== id)
WithoutPreset(ps, id) ==
    LET Keep(p) == p.id # id
    IN  SelectSeq(ps, Keep)

\* Mutant: the collection is updated in memory and not written to storage.
deletePreset_NoPersist(id) ==
    /\ presets' = WithoutPreset(presets, id)
    /\ UNCHANGED <<chartFilters, dateRange, presetStore>>
    /\ snap' = NoSnap
    /\ Log("deletePreset", "", "", id)

deletePreset(id) ==
    LET updated == WithoutPreset(presets, id)
    IN  /\ presets' = updated
        /\ presetStore' = StringifyPresets(updated)
        /\ UNCHANGED <<chartFilters, dateRange>>
        /\ snap' = NoSnap
        /\ Log("deletePreset", "", "", id)

----------------------------------------------------------------------------
(* DataTable: local state, row set, sorting and paging *)

ITEMS_PER_PAGE == 50

\* The state DataTable is constructed with.  DashboardContent renders a
\* skeleton in place of the cards, the charts and the table until its
\* loading timer has fired; mounted tells whether the three are rendered,
\* and mountedAt the clock reading of their first render.
TableUnmounted ==
    [mounted |-> FALSE, mountedAt |-> 0, search |-> <<>>,
     verticalFilter |-> "", statusFilter |-> "", categoryFilter |-> "",
     urgencyFilter |-> "", priorityFilter |-> "", healthFilter |-> "",
     sortKey |-> "requestDate", sortDirection |-> "desc", currentPage |-> 1]

\* The effect of DataTable on [chartFilters]: every non-null chart filter
\* overwrites the local column filter of its dimension.
SyncedTable(t, cf) ==
    IF ~t.mounted THEN t
    ELSE [t EXCEPT
            !.verticalFilter = IF cf.vertical # NULL THEN cf.vertical ELSE @,
            !.statusFilter = IF cf.status # NULL THEN cf.status ELSE @,
            !.categoryFilter = IF cf.issueCategory # NULL THEN cf.issueCategory ELSE @,
            !.healthFilter = IF cf.accountHealth # NULL THEN cf.accountHealth ELSE @]

\* The effect after a handler that put a new chartFilters object in state.
TableSync == table' = SyncedTable(table, chartFilters')

\* The effect after loadPreset: it runs when the filters changed.  When the
\* preset's filters equal the ones in state, React skips the render if they
\* are the very same object and runs the effect if they are not; object
\* identity is not part of the state, so both outcomes are allowed.
TableSyncAfterLoad ==
    IF chartFilters' # chartFilters
    THEN TableSync
    ELSE table' \in {table, SyncedTable(table, chartFilters')}

UpperCase ==
    <<"A", "B", "C", "D", "E", "F", "G", "H", "I", "J", "K", "L", "M",
      "N", "O", "P", "Q", "R", "S", "T", "U", "V", "W", "X", "Y", "Z">>

LowerCase ==
    <<"a", "b", "c", "d", "e", "f", "g", "h", "i", "j", "k", "l", "m",
      "n", "o", "p", "q", "r", "s", "t", "u", "v", "w", "x", "y", "z">>

\* The lower-case form of each upper-case letter.
LowerOf ==
    [c \in { UpperCase[k] : k \in 1..Len(UpperCase) } |->
        LowerCase[CHOOSE k \in 1..Len(UpperCase) : UpperCase[k] = c]]

\* String.prototype.toLowerCase
ToLowerCase(text) ==
    [i \in 1..Len(text) |-> IF text[i] \in DOMAIN LowerOf THEN LowerOf[text[i]] ELSE text[i]]

\* String.prototype.includes
Includes(text, part) ==
    \E i \in 0..(Len(text) - Len(part)) : SubSeq(text, i + 1, i + Len(part)) = part

\* Mutant: a local column filter overrides the chart filter of its dimension.
TableFilteredData_LocalOverrides(data, t, cf, dr) ==
    LET Keep(item) ==
            /\ PassesDateRange(item, dr)
            /\ \/ t.search = <<>>
               \/ Includes(ToLowerCase(item.accountName), ToLowerCase(t.search))
               \/ Includes(ToLowerCase(item.requestId), ToLowerCase(t.search))
            /\ t.verticalFilter = "" \/ item.vertical = t.verticalFilter
            /\ t.statusFilter = "" \/ item.status = t.statusFilter
            /\ t.categoryFilter = "" \/ item.issueCategory = t.categoryFilter
            /\ t.urgencyFilter = "" \/ item.urgency = t.urgencyFilter
            /\ t.priorityFilter = "" \/ item.priority = t.priorityFilter
            /\ t.healthFilter = "" \/ item.accountHealth = t.healthFilter
            /\ t.verticalFilter # "" \/ cf.vertical = NULL \/ item.vertical = cf.vertical
            /\ t.statusFilter # "" \/ cf.status = NULL \/ item.status = cf.status
            /\ t.categoryFilter # "" \/ cf.issueCategory = NULL
                 \/ item.issueCategory = cf.issueCategory
            /\ t.healthFilter # "" \/ cf.accountHealth = NULL
                 \/ item.accountHealth = cf.accountHealth
    IN  SelectSeq(data, Keep)

\* DataTable.filteredData
TableFilteredData(data, t, cf, dr) ==
    LET Keep(item) ==
            LET matchesSearch ==
                    \/ t.search = <<>>
                    \/ Includes(ToLowerCase(item.accountName), ToLowerCase(t.search))
                    \/ Includes(ToLowerCase(item.requestId), ToLowerCase(t.search))
                matchesVertical == t.verticalFilter = "" \/ item.vertical = t.verticalFilter
                matchesStatus == t.statusFilter = "" \/ item.status = t.statusFilter
                matchesCategory ==
                    t.categoryFilter = "" \/ item.issueCategory = t.categoryFilter
                matchesUrgency == t.urgencyFilter = "" \/ item.urgency = t.urgencyFilter
                matchesPriority == t.priorityFilter = "" \/ item.priority = t.priorityFilter
                matchesHealth == t.healthFilter = "" \/ item.accountHealth = t.healthFilter
            IN  /\ PassesDateRange(item, dr)
                /\ matchesSearch /\ matchesVertical /\ matchesStatus /\ matchesCategory
                /\ matchesUrgency /\ matchesPriority /\ matchesHealth
                /\ TableMatchesChart(item, cf)
    IN  SelectSeq(data, Keep)

\* Math.ceil(sortedData.length / ITEMS_PER_PAGE)
totalPages(rows) == (rows + ITEMS_PER_PAGE - 1) \div ITEMS_PER_PAGE

\* The columns whose header calls handleSort, and the initial sort key.
SortKeys ==
    {"requestId", "accountName", "vertical", "issueCategory", "status", "urgency",
     "timeToRespond", "timeToResolution", "accountHealth", "requestDate"}

\* typeof value === 'number'; requestDate is a "YYYY-MM-DD" string, which
\* localeCompare orders as the days it names.
NumberKeys == {"timeToRespond", "timeToResolution"}

TextKeys == {"requestId", "accountName"}

\* The order localeCompare gives the characters of the sample texts; upper
\* and lower case of a letter differ only as a last tie-break, which no two
\* sample texts need.
Collation ==
    <<"-", "0", "1", "2", "3", "4", "5", "6", "7", "8", "9">> \o LowerCase

CharRank(c) ==
    LET l == ToLowerCase(<<c>>)[1]
    IN  CHOOSE k \in 1..Len(Collation) : Collation[k] = l

RECURSIVE TextCompare(_, _)
TextCompare(a, b) ==
    IF a = <<>> /\ b = <<>> THEN 0
    ELSE IF a = <<>> THEN 0 - 1
    ELSE IF b = <<>> THEN 1
    ELSE IF CharRank(Head(a)) # CharRank(Head(b))
         THEN CharRank(Head(a)) - CharRank(Head(b))
         ELSE TextCompare(Tail(a), Tail(b))

\* The values of the enumerated columns in the order localeCompare gives.
LocaleOrder ==
    <<"Advocate", "API Error", "Billing Inquiry", "Churn Risk", "Engaged", "Fuel",
      "Grocery", "High", "In Progress", "Low", "Medium", "Network Issues", "Neutral",
      "Refund Request", "Resolved", "Restaurant", "Skeptic", "Software Integration">>

LocaleRank(v) == CHOOSE k \in 1..Len(LocaleOrder) : LocaleOrder[k] = v

\* aVal.localeCompare(bVal) for strings, aVal - bVal for numbers.
CompareAsc(a, b, key) ==
    IF key \in NumberKeys \/ key = "requestDate" THEN a[key] - b[key]
    ELSE IF key \in TextKeys THEN TextCompare(a[key], b[key])
    ELSE LocaleRank(a[key]) - LocaleRank(b[key])

\* The comparator of sortedData.
SortCompare(a, b, key, direction) ==
    IF direction = "asc" THEN CompareAsc(a, b, key) ELSE CompareAsc(b, a, key)

\* [...filteredData].sort(comparator): Array.prototype.sort is stable, so
\* records the comparator calls equal keep the order they came in.  A row
\* comes after the rows the comparator puts before it and after the earlier
\* rows it calls equal to it.
sortedData(rows, key, direction) ==
    LET n == Len(rows)
        Precedes(j, i) ==
            LET c == SortCompare(rows[j], rows[i], key, direction)
            IN  c < 0 \/ (c = 0 /\ j < i)
        place == [i \in 1..n |-> 1 + Cardinality({ j \in 1..n : Precedes(j, i) })]
    IN  [k \in 1..n |-> rows[CHOOSE i \in 1..n : place[i] = k]]

----------------------------------------------------------------------------
(* Mounting the providers: FilterProvider, then SLAProvider inside it *)

\* JSON.parse is called with no try/catch: text that is not JSON makes the
\* useState initializer, and with it the render of the application, throw.
MountCrashes(ps, ss) == InitThrows(ps) \/ InitThrows(ss)

MountApp(ps, ss) == IF MountCrashes(ps, ss) THEN "crashed" ELSE "running"

MountPresets(ps, ss) == IF MountCrashes(ps, ss) THEN <<>> ELSE InitValue(ps, <<>>)

MountThresholds(ps, ss) ==
    IF MountCrashes(ps, ss) THEN defaultThresholds ELSE InitValue(ss, defaultThresholds)

\* useEffect(..., [thresholds]) runs after the first render as well.
MountSlaStore(ps, ss) ==
    IF MountCrashes(ps, ss) THEN ss ELSE StringifyThresholds(MountThresholds(ps, ss))

StartTick == StartDay * TicksPerDay

\* The state after construction, with the given stored items and time zone.
InitWith(ps, ss, zone) ==
    /\ now = StartTick
    /\ tz = zone
    /\ app = MountApp(ps, ss)
    /\ chartFilters = defaultChartFilters
    /\ dateRange = defaultDateRange
    /\ presets = MountPresets(ps, ss)
    /\ presetStore = ps
    /\ thresholds = MountThresholds(ps, ss)
    /\ slaStore = MountSlaStore(ps, ss)
    /\ fpOpen = FALSE
    /\ showSaveInput = FALSE
    /\ table = TableUnmounted
    /\ last = [op |-> "mount", key |-> ps.k, val |-> ss.k, id |-> 0]
    /\ snap = NoSnap

\* The page is loaded again: every provider is constructed anew from storage.
Reload ==
    /\ now' = now
    /\ tz' = tz
    /\ app' = MountApp(presetStore, slaStore)
    /\ chartFilters' = defaultChartFilters
    /\ dateRange' = defaultDateRange
    /\ presets' = MountPresets(presetStore, slaStore)
    /\ presetStore' = presetStore
    /\ thresholds' = MountThresholds(presetStore, slaStore)
    /\ slaStore' = MountSlaStore(presetStore, slaStore)
    /\ fpOpen' = FALSE
    /\ showSaveInput' = FALSE
    /\ table' = TableUnmounted
    /\ last' = [op |-> "mount", key |-> presetStore.k, val |-> slaStore.k, id |-> 0]
    /\ snap' = NoSnap

----------------------------------------------------------------------------
(* Event handlers *)

Running == app = "running"

Idle == Log("idle", "", "", 0)

\* FilterPresets.handleClickOutside: a mousedown outside the dropdown.
MouseDownOutsidePresets ==
    /\ fpOpen' = FALSE
    /\ showSaveInput' = FALSE

\* The clock advances.
Tick ==
    /\ now < StartTick + MaxTicks
    /\ now' = now + 1
    /\ Idle
    /\ UNCHANGED <<table, tz, app, chartFilters, dateRange, presets, presetStore,
                   thresholds, slaStore, fpOpen, showSaveInput, snap>>

\* CommandPalette 'Quick Filters' commands, run from the keyboard (Enter).
PaletteFilters ==
    { [key |-> "vertical", value |-> "Restaurant"],
      [key |-> "vertical", value |-> "Fuel"],
      [key |-> "vertical", value |-> "Grocery"],
      [key |-> "status", value |-> "Resolved"],
      [key |-> "status", value |-> "In Progress"] }

PaletteFilter(c) ==
    /\ Running
    /\ setChartFilter(c.key, c.value)
    /\ TableSync
    /\ UNCHANGED <<now, tz, app, thresholds, slaStore, fpOpen, showSaveInput>>

PaletteClear ==
    /\ Running
    /\ clearChartFilters
    /\ TableSync
    /\ UNCHANGED <<now, tz, app, thresholds, slaStore, fpOpen, showSaveInput>>

\* Charts.handleVerticalClick and its three siblings: a click on the
\* segment that shows the value `name` of dimension `dim`.
ChartNames(dim) ==
    LET shown == ChartsData(serviceRequests, dateRange)
    IN  { shown[i][dim] : i \in 1..Len(shown) }

ChartClick(dim, name) ==
    /\ Running
    /\ table.mounted
    /\ name \in ChartNames(dim)
    /\ setChartFilter(dim, IF chartFilters[dim] = name THEN NULL ELSE name)
    /\ MouseDownOutsidePresets
    /\ TableSync
    /\ UNCHANGED <<now, tz, app, thresholds, slaStore>>

\* Charts: the 'Clear chart filters' button, shown while a filter is active.
ChartClearButton ==
    /\ Running
    /\ table.mounted
    /\ hasActiveChartFilters(chartFilters)
    /\ clearChartFilters
    /\ MouseDownOutsidePresets
    /\ TableSync
    /\ UNCHANGED <<now, tz, app, thresholds, slaStore>>

DatePresets == {"all", "last7", "last30", "last90", "ytd"}

\* DateRangePicker.handlePresetSelect
handlePresetSelect(preset) ==
    /\ Running
    /\ preset # "custom"
    /\ LET dates == getPresetDates(preset, now, tz)
       IN  setDateRange([start |-> dates.start, end |-> dates.end, preset |-> preset])
    /\ MouseDownOutsidePresets
    /\ UNCHANGED <<table, now, tz, app, thresholds, slaStore>>

\* DateRangePicker.handleCustomApply; the button is disabled until both
\* date inputs are filled, so both are days.
handleCustomApply(customStart, customEnd) ==
    /\ Running
    /\ setDateRange([start |-> ParseDay(customStart), end |-> ParseDay(customEnd),
                     preset |-> "custom"])
    /\ MouseDownOutsidePresets
    /\ UNCHANGED <<table, now, tz, app, thresholds, slaStore>>

\* FilterPresets: the 'Presets' button.
TogglePresets ==
    /\ Running
    /\ fpOpen' = ~fpOpen
    /\ Idle
    /\ UNCHANGED <<table, now, tz, app, chartFilters, dateRange, presets, presetStore,
                   thresholds, slaStore, showSaveInput, snap>>

\* FilterPresets: 'Save Current Filters as Preset', disabled unless canSave.
OpenSaveInput ==
    /\ Running
    /\ fpOpen
    /\ ~showSaveInput
    /\ canSave(chartFilters, dateRange)
    /\ showSaveInput' = TRUE
    /\ Idle
    /\ UNCHANGED <<table, now, tz, app, chartFilters, dateRange, presets, presetStore,
                   thresholds, slaStore, fpOpen, snap>>

\* FilterPresets: Escape in the name input.
EscapeSaveInput ==
    /\ Running
    /\ fpOpen
    /\ showSaveInput
    /\ showSaveInput' = FALSE
    /\ Idle
    /\ UNCHANGED <<table, now, tz, app, chartFilters, dateRange, presets, presetStore,
                   thresholds, slaStore, fpOpen, snap>>

\* FilterPresets.handleSave with `text` typed into the name input.
handleSave(text) ==
    /\ Running
    /\ fpOpen
    /\ showSaveInput
    /\ Len(presets) < MaxPresets
    /\ IF Trim(text) # <<>>
       THEN /\ savePreset(Trim(text))
            /\ showSaveInput' = FALSE
       ELSE /\ Idle
            /\ UNCHANGED <<chartFilters, dateRange, presets, presetStore,
                           showSaveInput, snap>>
    /\ UNCHANGED <<table, now, tz, app, thresholds, slaStore, fpOpen>>

\* DateRangePicker.getDisplayLabel, run at every render: for a 'custom' range
\* with both ends set it calls toLocaleDateString() on them, which an ISO
\* string does not have, so the render throws.
DisplayLabelThrows(dr) ==
    /\ dr.preset = "custom"
    /\ Truthy(dr.start) /\ Truthy(dr.end)
    /\ (dr.start.k = "Str" \/ dr.end.k = "Str")

RenderAfterLoad == app' = IF DisplayLabelThrows(dateRange') THEN "crashed" ELSE app

\* FilterPresets: a click on the i-th preset's name.
LoadClick(i) ==
    /\ Running
    /\ fpOpen
    /\ i \in 1..Len(presets)
    /\ loadPreset(presets[i].id)
    /\ RenderAfterLoad
    /\ fpOpen' = FALSE
    /\ TableSyncAfterLoad
    /\ UNCHANGED <<now, tz, thresholds, slaStore, showSaveInput>>

\* FilterPresets: a click on the i-th preset's delete button.
DeleteClick(i) ==
    /\ Running
    /\ fpOpen
    /\ i \in 1..Len(presets)
    /\ deletePreset(presets[i].id)
    /\ UNCHANGED <<table, now, tz, app, thresholds, slaStore, fpOpen, showSaveInput>>

\* SLASettings.handleSave with the two texts of the number inputs, and the
\* SLAProvider effect that persists the new thresholds.
NewThresholds(responseTime, resolutionTime) ==
    [responseTimeHours |-> OrDefault(ParseInt(responseTime), 12),
     resolutionTimeHours |-> OrDefault(ParseInt(resolutionTime), 72)]

PersistThresholds(th) == slaStore' = StringifyThresholds(th)

SLAHandleSave(responseTime, resolutionTime) ==
    /\ Running
    /\ thresholds' = NewThresholds(responseTime, resolutionTime)
    /\ PersistThresholds(thresholds')
    /\ MouseDownOutsidePresets
    /\ Log("setThresholds", "", "", 0)
    /\ UNCHANGED <<table, now, tz, app, chartFilters, dateRange, presets, presetStore, snap>>

\* Records that follow the sample in the collection handed to the table, so
\* that the table has more than one page.
FillerCount == 50

FillerRequest(k) ==
    [requestId |-> <<"F", Digits[((k \div 10) % 10) + 1], Digits[(k % 10) + 1]>>,
     accountName |-> <<"Z", "e", "d">>,
     urgency |-> "Medium", priority |-> "Medium", requestDate |-> 5,
     vertical |-> "Grocery", status |-> "Resolved", issueCategory |-> "Billing Inquiry",
     accountHealth |-> "Neutral", timeToRespond |-> 1, timeToResolution |-> 1]

tableRequests == serviceRequests \o [k \in 1..FillerCount |-> FillerRequest(k)]

\* The rows of the table in the current state, and its page count.
TableRows == TableFilteredData(tableRequests, table, chartFilters, dateRange)

TablePages == totalPages(Len(TableRows))

TableIdle == Log("table", "", "", 0)

\* DashboardContent: the loading timer fires; the cards, the charts and the
\* table are mounted, and the table's effect runs for the first time.
FinishLoading ==
    /\ Running
    /\ ~table.mounted
    /\ table' = SyncedTable([TableUnmounted EXCEPT !.mounted = TRUE, !.mountedAt = now],
                             chartFilters)
    /\ Log("finishLoading", "", "", 0)
    /\ UNCHANGED <<now, tz, app, chartFilters, dateRange, presets, presetStore,
                   thresholds, slaStore, fpOpen, showSaveInput, snap>>

\* What every handler of the table leaves alone.
TableFrame ==
    /\ MouseDownOutsidePresets
    /\ TableIdle
    /\ UNCHANGED <<now, tz, app, chartFilters, dateRange, presets, presetStore,
                   thresholds, slaStore, snap>>

\* DataTable: onChange of the search input.
SetSearch(text) ==
    /\ Running
    /\ table.mounted
    /\ table' = [table EXCEPT !.search = text, !.currentPage = 1]
    /\ TableFrame

ColumnFilters ==
    {"verticalFilter", "statusFilter", "categoryFilter", "urgencyFilter",
     "priorityFilter", "healthFilter"}

\* DataTable: onChange of one of the six column selects.
SetColumnFilter(column, value) ==
    /\ Running
    /\ table.mounted
    /\ table' = [table EXCEPT ![column] = value, !.currentPage = 1]
    /\ TableFrame

\* Mutant: a click on another column keeps the direction.
SortClick_KeepsDirection(t, key) ==
    IF t.sortKey = key
    THEN [t EXCEPT !.sortDirection = IF @ = "asc" THEN "desc" ELSE "asc"]
    ELSE [t EXCEPT !.sortKey = key]

\* handleSort on the table state t: a click on the active column flips the
\* direction, a click on another column makes it the active one, ascending.
SortClick(t, key) ==
    IF t.sortKey = key
    THEN [t EXCEPT !.sortDirection = IF @ = "asc" THEN "desc" ELSE "asc"]
    ELSE [t EXCEPT !.sortKey = key, !.sortDirection = "asc"]

\* DataTable.handleSort
handleSort(key) ==
    /\ Running
    /\ table.mounted
    /\ table' = SortClick(table, key)
    /\ Log("handleSort", key, "", 0)
    /\ MouseDownOutsidePresets
    /\ UNCHANGED <<now, tz, app, chartFilters, dateRange, presets, presetStore,
                   thresholds, slaStore, snap>>

Max(a, b) == IF a >= b THEN a ELSE b

Min(a, b) == IF a <= b THEN a ELSE b

\* DataTable: the Previous button, rendered when there is more than one
\* page and disabled on page 1.
PreviousPage ==
    /\ Running
    /\ table.mounted
    /\ table.currentPage # 1
    /\ TablePages > 1
    /\ table' = [table EXCEPT !.currentPage = Max(1, @ - 1)]
    /\ TableFrame

\* DataTable: the Next button, disabled on the last page.
NextPage ==
    /\ Running
    /\ table.mounted
    /\ LET pages == TablePages
       IN  /\ pages > 1
           /\ table.currentPage # pages
           /\ table' = [table EXCEPT !.currentPage = Min(pages, @ + 1)]
    /\ TableFrame

\* The operations of the store called by any consumer of useFilters().
StoreSetChartFilter(key, value) ==
    /\ Running
    /\ setChartFilter(key, value)
    /\ TableSync
    /\ UNCHANGED <<now, tz, app, thresholds, slaStore, fpOpen, showSaveInput>>

StoreLoadPreset(id) ==
    /\ Running
    /\ loadPreset(id)
    /\ RenderAfterLoad
    /\ TableSyncAfterLoad
    /\ UNCHANGED <<now, tz, thresholds, slaStore, fpOpen, showSaveInput>>

StoreDeletePreset(id) ==
    /\ Running
    /\ deletePreset(id)
    /\ UNCHANGED <<table, now, tz, app, thresholds, slaStore, fpOpen, showSaveInput>>

----------------------------------------------------------------------------
(* Specifications *)

\* Texts typed into the preset-name input.
NameTexts == { <<" ">>, <<"Q", " ">> }

SessionDatePresets == {"all", "last7"}

\* One session of the application, driven through its controls.
Init == InitWith(Absent, Absent, 0)

Next ==
    \/ Tick
    \/ \E c \in PaletteFilters : PaletteFilter(c)
    \/ PaletteClear
    \/ \E p \in SessionDatePresets : handlePresetSelect(p)
    \/ TogglePresets
    \/ OpenSaveInput
    \/ EscapeSaveInput
    \/ \E text \in NameTexts : handleSave(text)
    \/ \E i \in 1..MaxPresets : LoadClick(i)
    \/ \E i \in 1..MaxPresets : DeleteClick(i)

Spec == Init /\ [][Next]_vars


----------------------------------------------------------------------------
\* The enumerations of data/types.ts.
Verticals == {"Restaurant", "Fuel", "Grocery"}

Statuses == {"Resolved", "In Progress"}

IssueCategories ==
    {"API Error", "Billing Inquiry", "Refund Request", "Network Issues",
     "Software Integration"}

AccountHealths == {"Advocate", "Engaged", "Neutral", "Skeptic", "Churn Risk"}

DimValues(d) ==
    CASE d = "vertical" -> Verticals
      [] d = "status" -> Statuses
      [] d = "issueCategory" -> IssueCategories
      [] d = "accountHealth" -> AccountHealths

\* A preset collection left in storage by an earlier session.
SamplePresets ==
    << [id |-> StartTick - 3, name |-> <<"Q">>,
        filters |-> WithFilter(defaultChartFilters, "vertical", "Fuel"),
        dateRange |-> [start |-> DateObj(LocalMidnight(StartTick - 3, 0) - 7 * TicksPerDay),
                       end |-> DateObj(LocalMidnight(StartTick - 3, 0)),
                       preset |-> "last7"]],
       [id |-> StartTick - 2, name |-> <<"Q">>,
        filters |-> WithFilter(defaultChartFilters, "status", "Resolved"),
        dateRange |-> [start |-> ParseDay(2), end |-> ParseDay(5),
                       preset |-> "custom"]] >>

StoredSample == StringifyPresets(SamplePresets)

\* Ids passed to loadPreset and deletePreset: the stored ones and one that
\* no preset has.
StoreIds == {StartTick - 3, StartTick - 2, StartTick - 1}

\* Days typed into the custom range inputs.
CustomDays == {2, 5}

\* The filter store under calls of its operations by any consumer, starting
\* with an empty or a stored preset collection.
InitStore == \E ps \in {Absent, StoredSample} : InitWith(ps, Absent, 0)

NextStore ==
    \/ \E d \in Dims : \E v \in DimValues(d) \cup {NULL} : StoreSetChartFilter(d, v)
    \/ PaletteClear
    \/ \E p \in DatePresets : handlePresetSelect(p)
    \/ \E a \in CustomDays : \E b \in CustomDays : handleCustomApply(a, b)
    \/ \E id \in StoreIds : StoreLoadPreset(id)
    \/ \E id \in StoreIds : StoreDeletePreset(id)

SpecStore == InitStore /\ [][NextStore]_vars

\* Texts typed into the SLA number inputs.
ThresholdTexts == { <<>>, <<"8">>, <<"-", "5">> }

\* Sessions of the application with their persistence: saving and deleting
\* presets, committing thresholds, and loading the page again.
InitPersist ==
    \E ps \in {Absent, EmptyText, Garbage} :
        \E ss \in {Absent, EmptyText, Garbage} : InitWith(ps, ss, 0)

NextPersist ==
    \/ Tick
    \/ \E p \in SessionDatePresets : handlePresetSelect(p)
    \/ handleCustomApply(2, 5)
    \/ TogglePresets
    \/ OpenSaveInput
    \/ \E text \in NameTexts : handleSave(text)
    \/ \E i \in 1..MaxPresets : LoadClick(i)
    \/ \E i \in 1..MaxPresets : DeleteClick(i)
    \/ \E a \in ThresholdTexts : \E b \in ThresholdTexts : SLAHandleSave(a, b)
    \/ Reload

SpecPersist == InitPersist /\ [][NextPersist]_vars

\* Offsets of local time from UTC, in ticks: west of, at and east of UTC.
ZoneOffsets == {0 - 1, 0, 1}

\* Sessions in any time zone that select every kind of date range while the
\* clock advances, and save and load presets.
InitDates == \E zone \in ZoneOffsets : InitWith(Absent, Absent, zone)

NextDates ==
    \/ Tick
    \/ \E p \in DatePresets : handlePresetSelect(p)
    \/ \E a \in CustomDays : \E b \in CustomDays : handleCustomApply(a, b)
    \/ TogglePresets
    \/ OpenSaveInput
    \/ \E text \in NameTexts : handleSave(text)
    \/ \E i \in 1..MaxPresets : LoadClick(i)
    \/ \E i \in 1..MaxPresets : DeleteClick(i)

SpecDates == InitDates /\ [][NextDates]_vars

\* Texts typed into the table's search input.
SearchTexts == { <<>>, <<"a", "C">>, <<"s", "r", "-", "2">> }

\* Options chosen in the table's column selects.
ColumnOptions(column) ==
    CASE column = "verticalFilter" -> {"", "Grocery"}
      [] column = "statusFilter" -> {"", "In Progress"}
      [] column = "categoryFilter" -> {"", "API Error"}
      [] column = "urgencyFilter" -> {"", "High"}
      [] column = "priorityFilter" -> {"", "Low"}
      [] column = "healthFilter" -> {"", "Advocate"}

\* Chart filters set while the table is shown.
TableChartFilters ==
    { [key |-> "vertical", value |-> "Restaurant"],
      [key |-> "vertical", value |-> "Grocery"],
      [key |-> "vertical", value |-> NULL],
      [key |-> "status", value |-> "Resolved"],
      [key |-> "status", value |-> NULL] }

\* The table under its own controls and under changes of the shared filter
\* state, from the end of loading on.
InitTable == InitWith(StoredSample, Absent, 0)

NextTable ==
    \/ FinishLoading
    \/ \E text \in SearchTexts : SetSearch(text)
    \/ \E column \in ColumnFilters : \E v \in ColumnOptions(column) :
          SetColumnFilter(column, v)
    \/ PreviousPage
    \/ NextPage
    \/ \E c \in TableChartFilters : StoreSetChartFilter(c.key, c.value)
    \/ \E v \in Statuses : ChartClick("status", v)
    \/ ChartClearButton
    \/ handlePresetSelect("all")
    \/ handleCustomApply(2, 5)
    \/ \E id \in StoreIds : StoreLoadPreset(id)

SpecTable == InitTable /\ [][NextTable]_vars

\* The table under clicks on its column headers, searches and paging.
NextSort ==
    \/ FinishLoading
    \/ \E key \in SortKeys \ {"requestDate"} : handleSort(key)
    \/ \E text \in SearchTexts : SetSearch(text)
    \/ PreviousPage
    \/ NextPage
    \/ handlePresetSelect("all")
    \/ handleCustomApply(2, 5)

SpecSort == InitTable /\ [][NextSort]_vars

\* The cards in the store state of the session.
Cards == KPICards(cardRequests, dateRange, thresholds, now, table.mountedAt)

\* The cards under changes of the date range and of the thresholds while
\* the clock advances, over sessions that load the page again.
InitCards == InitWith(Absent, Absent, 0)

NextCards ==
    \/ Tick
    \/ FinishLoading
    \/ \E p \in DatePresets : handlePresetSelect(p)
    \/ \E a \in CustomDays : \E b \in CustomDays : handleCustomApply(a, b)
    \/ \E a \in ThresholdTexts : \E b \in ThresholdTexts : SLAHandleSave(a, b)
    \/ Reload

SpecCards == InitCards /\ [][NextCards]_vars


----------------------------------------------------------------------------
(* Claims *)

HasId(ps, id) == \E i \in 1..Len(ps) : ps[i].id = id

RemoveAt(ps, k) == [i \in 1..(Len(ps) - 1) |-> IF i < k THEN ps[i] ELSE ps[i + 1]]

DistinctIds(ps) == \A i, j \in 1..Len(ps) : i # j => ps[i].id # ps[j].id

\* C1: after savePreset created a preset with id i, any sequence of
\* setChartFilter / clearChartFilters / setDateRange followed by
\* loadPreset(i) leaves chartFilters and dateRange equal to their values at
\* the moment savePreset was called.
C1_SaveThenLoadRestores ==
    (last.op = "loadPreset" /\ snap.valid /\ last.id = snap.id)
        => (chartFilters = snap.filters /\ dateRange = snap.dateRange)

\* C1, restricted to collections whose ids are pairwise distinct: there the
\* load does restore the saved state.
C1_RestoresWhenIdsDistinct == DistinctIds(presets) => C1_SaveThenLoadRestores

\* C2: in every reachable state the ids of the presets are pairwise distinct.
C2_IdsPairwiseDistinct == DistinctIds(presets)

\* C3: deletePreset(id) on a collection containing the id removes exactly one
\* entry and keeps the others in order; with the id not present the
\* collection is unchanged.
C3_DeleteRemovesExactlyOne ==
    [][last'.op = "deletePreset" =>
          IF HasId(presets, last'.id)
          THEN \E k \in 1..Len(presets) :
                  presets[k].id = last'.id /\ presets' = RemoveAt(presets, k)
          ELSE presets' = presets]_vars

\* C4: loadPreset(id) with an id present replaces chartFilters and dateRange
\* together by the preset's stored values, in one step; with an id not
\* present it changes nothing and raises no error.
C4_LoadReplacesBothOrNothing ==
    [][last'.op = "loadPreset" =>
          /\ presets' = presets
          /\ presetStore' = presetStore
          /\ IF HasId(presets, last'.id)
             THEN \E i \in 1..Len(presets) :
                     /\ presets[i].id = last'.id
                     /\ chartFilters' = presets[i].filters
                     /\ dateRange' = presets[i].dateRange
             ELSE /\ chartFilters' = chartFilters
                  /\ dateRange' = dateRange
                  /\ app' = "running"]_vars

\* C4 witness: a load of a stored preset has replaced both a chart filter
\* and a date range that differed from the preset's.
C4_Witness ==
    /\ last.op = "loadPreset"
    /\ last.id = StartTick - 3
    /\ chartFilters = SamplePresets[1].filters
    /\ dateRange.preset = "last7"

\* C5: every preset in the collection captured a state with an active chart
\* filter or a date range other than 'all'.
C5_PresetsCaptureActiveFilters ==
    \A i \in 1..Len(presets) : canSave(presets[i].filters, presets[i].dateRange)

\* C6: after savePreset or deletePreset the stored preset item is the
\* serialization of the in-memory collection, and after setThresholds the
\* stored threshold item is the serialization of the in-memory thresholds.
C6_StorageMirrorsMemory ==
    /\ last.op \in {"savePreset", "deletePreset"}
          => presetStore = StringifyPresets(presets)
    /\ last.op = "setThresholds" => slaStore = StringifyThresholds(thresholds)

\* C6 witness: a delete that left a preset behind, in a session whose
\* thresholds were changed.
C6_Witness ==
    /\ last.op = "deletePreset"
    /\ Len(presets) = 1
    /\ thresholds.responseTimeHours = 8

\* C7: on initialization with an absent or malformed stored item the store
\* starts with its default and no error is raised.
C7_MalformedStorageFallsBack ==
    last.op = "mount" =>
        /\ app = "running"
        /\ last.key \in {"absent", "empty", "garbage"} => presets = <<>>
        /\ last.val \in {"absent", "empty", "garbage"} => thresholds = defaultThresholds

\* JSON.parse with a reviver that turns ISO strings back into Date objects:
\* the shape a date range had when it was saved.
Revived(dr) ==
    [start |-> IF dr.start.k = "Str" THEN DateObj(dr.start.v) ELSE dr.start,
     end |-> IF dr.end.k = "Str" THEN DateObj(dr.end.v) ELSE dr.end,
     preset |-> dr.preset]

\* C8: a preset's dateRange read back at initialization has the shape it had
\* when saved (start and end are date values), and selects the same records.
C8_DateRangeSurvivesReload ==
    \A i \in 1..Len(presets) :
        /\ presets[i].dateRange.start.k \in {"Date", "null"}
        /\ presets[i].dateRange.end.k \in {"Date", "null"}
        /\ FilteredData(serviceRequests, presets[i].filters, presets[i].dateRange)
             = FilteredData(serviceRequests, presets[i].filters,
                            Revived(presets[i].dateRange))

\* C9: setChartFilter(d, v) sets dimension d to v and leaves the other three
\* dimensions, the dateRange and the preset collection unchanged.
C9_SetChartFilterFrame ==
    [][last'.op = "setChartFilter" =>
          /\ chartFilters'[last'.key] = last'.val
          /\ \A d \in Dims \ {last'.key} : chartFilters'[d] = chartFilters[d]
          /\ dateRange' = dateRange
          /\ presets' = presets]_vars

\* C9 witness: a dimension was set while two other dimensions, a date range
\* and stored presets were in place.
C9_Witness ==
    /\ last.op = "setChartFilter"
    /\ last.key = "issueCategory"
    /\ last.val = "Billing Inquiry"
    /\ chartFilters.vertical = "Grocery"
    /\ chartFilters.accountHealth = "Skeptic"
    /\ dateRange.preset = "custom"
    /\ Len(presets) = 2

\* The records that pass the date range and have value v in dimension d.
SingleFiltered(d, v, dr) ==
    LET Keep(r) == PassesDateRange(r, dr) /\ (v # NULL => r[d] = v)
    IN  SelectSeq(serviceRequests, Keep)

\* C10: clearChartFilters yields the fresh initial chartFilters, so that
\* clearChartFilters followed by setChartFilter(d, v) gives the chartFilters,
\* and the filtered records, of setChartFilter(d, v) on a fresh state.
C10_ClearThenSetIsFresh ==
    [][/\ last'.op = "clearChartFilters" =>
             \A d \in Dims : chartFilters'[d] = NULL
       /\ (last.op = "clearChartFilters" /\ last'.op = "setChartFilter") =>
             /\ \A d \in Dims :
                   chartFilters'[d] = IF d = last'.key THEN last'.val ELSE NULL
             /\ FilteredData(serviceRequests, chartFilters', dateRange')
                  = SingleFiltered(last'.key, last'.val, dateRange')]_vars

\* C10 witness: filters that were active have been cleared, under a date
\* range that is not 'all'.
C10_Witness ==
    /\ last.op = "clearChartFilters"
    /\ last.val = "active"
    /\ chartFilters = defaultChartFilters
    /\ dateRange.preset = "last7"

\* The sub-collection of data at the positions S, in the order of data.
Pick(data, S) == 
    LET F[k \in 0..Len(data)] ==
            IF k = 0 THEN <<>>
            ELSE IF k \in S THEN Append(F[k - 1], data[k]) ELSE F[k - 1]
    IN  F[Len(data)]

\* C11: in every reachable state hasActiveChartFilters is true if and only
\* if at least one of the four chart-filter dimensions is non-null.
C11_ActiveIffSomeDimensionSet ==
    hasActiveChartFilters(chartFilters)
        <=> Cardinality({d \in Dims : chartFilters[d] # NULL}) >= 1

C11_Witness ==
    /\ last.op = "setChartFilter"
    /\ chartFilters.vertical = NULL /\ chartFilters.status = NULL
    /\ chartFilters.issueCategory = NULL /\ chartFilters.accountHealth = "Skeptic"
    /\ hasActiveChartFilters(chartFilters)

\* C12: for every record collection and every threshold pair getBreachCount
\* is the number of records whose response time or resolution time is
\* strictly above its threshold, and isBreachingSLA is the OR of the two
\* single breach predicates.
C12_BreachCountIsStrictOr ==
    app = "running" =>
        \A S \in SUBSET (1..Len(serviceRequests)) :
            /\ getBreachCount(Pick(serviceRequests, S), thresholds)
                 = Cardinality({ i \in S :
                       \/ serviceRequests[i].timeToRespond > thresholds.responseTimeHours
                       \/ serviceRequests[i].timeToResolution
                            > thresholds.resolutionTimeHours })
            /\ \A i \in S :
                 isBreachingSLA(serviceRequests[i], thresholds)
                   <=> \/ isBreachingResponse(serviceRequests[i], thresholds)
                       \/ isBreachingResolution(serviceRequests[i], thresholds)

\* Committed thresholds 8 and 72: SR-3 answers in 12 hours (a breach of 8)
\* and resolves in exactly 72 hours (no breach of 72).
C12_Witness ==
    /\ app = "running"
    /\ last.op = "setThresholds"
    /\ thresholds = [responseTimeHours |-> 8, resolutionTimeHours |-> 72]
    /\ getBreachCount(serviceRequests, thresholds) = 2
    /\ ~isBreachingResolution(serviceRequests[3], thresholds)

\* C13: in every reachable state both SLA thresholds are positive integers,
\* whatever text was committed in the SLA settings.
C13_ThresholdsPositive ==
    app = "running" =>
        /\ thresholds.responseTimeHours >= 1
        /\ thresholds.resolutionTimeHours >= 1

\* The positions of data whose record is in the sequence out.
Kept(data, out) == { i \in 1..Len(data) : \E j \in 1..Len(out) : out[j] = data[i] }

\* C14: for every record collection and chart-filter selection the
\* chart-filtered result is a subset of the collection in which every record
\* equals the selection on every non-null dimension (the predicates are
\* ANDed, null imposes nothing), and making one more dimension non-null
\* never increases the size of the result.
C14_ChartFilterSubsetMonotone ==
    \A S \in SUBSET (1..Len(serviceRequests)) :
        LET R == Pick(serviceRequests, S)
            out == FilteredData(R, chartFilters, dateRange)
        IN  /\ Len(out) = Cardinality(Kept(R, out))
            /\ \A i \in 1..Len(R) :
                  i \in Kept(R, out)
                    <=> /\ PassesDateRange(R[i], dateRange)
                        /\ \A d \in Dims :
                              chartFilters[d] # NULL => R[i][d] = chartFilters[d]
            /\ \A i \in 1..Len(R) :
                  TableMatchesChart(R[i], chartFilters)
                    <=> \A d \in Dims :
                          chartFilters[d] # NULL => R[i][d] = chartFilters[d]
            /\ \A d \in Dims : \A v \in DimValues(d) :
                  chartFilters[d] = NULL =>
                    Len(FilteredData(R, WithFilter(chartFilters, d, v), dateRange))
                      <= Len(out)

\* Two dimensions set, one of the three sample records left.
C14_Witness ==
    /\ last.op = "setChartFilter"
    /\ chartFilters.vertical = "Restaurant" /\ chartFilters.status = "In Progress"
    /\ chartFilters.issueCategory = NULL /\ chartFilters.accountHealth = NULL
    /\ dateRange.preset = "all"
    /\ Len(FilteredData(serviceRequests, chartFilters, dateRange)) = 1
    /\ Len(FilteredData(serviceRequests,
                        WithFilter(chartFilters, "status", NULL), dateRange)) = 2

\* The calendar day a bound of the range names: the day typed into the
\* custom input, the local day on which a named preset was selected.
DayOfBound(x, preset) ==
    IF preset = "custom" THEN x.v \div TicksPerDay ELSE (x.v + tz) \div TicksPerDay

\* C15: the date-range filter passes a record iff the preset is 'all', or
\* (start is null or the record's day is on or after the start day) and
\* (end is null or the record's day is on or before the end day); days are
\* compared as calendar days, whatever the time of day and the time zone.
C15_DateFilterByCalendarDay ==
    \A i \in 1..Len(serviceRequests) :
        LET r == serviceRequests[i]
        IN  PassesDateRange(r, dateRange)
              <=> \/ dateRange.preset = "all"
                  \/ /\ \/ dateRange.start.k = "null"
                         \/ r.requestDate >= DayOfBound(dateRange.start, dateRange.preset)
                      /\ \/ dateRange.end.k = "null"
                         \/ r.requestDate <= DayOfBound(dateRange.end, dateRange.preset)

\* The length in days of the named presets that count back from today.
PresetDays(preset) ==
    CASE preset = "last7" -> 7
      [] preset = "last30" -> 30
      [] preset = "last90" -> 90
      [] OTHER -> 0

\* The local calendar day of the instant t.
LocalDay(t) == (t + tz) \div TicksPerDay

IsLocalMidnight(x) == x.k = "Date" /\ (x.v + tz) % TicksPerDay = 0

WellFormedRange(dr) ==
    CASE dr.preset = "all" -> dr.start = NullDate /\ dr.end = NullDate
      [] dr.preset \in {"last7", "last30", "last90"} ->
           /\ IsLocalMidnight(dr.start) /\ IsLocalMidnight(dr.end)
           /\ LocalDay(dr.end.v) <= LocalDay(now)
           /\ LocalDay(dr.start.v) = LocalDay(dr.end.v) - PresetDays(dr.preset)
      [] dr.preset = "ytd" ->
           /\ IsLocalMidnight(dr.start) /\ IsLocalMidnight(dr.end)
           /\ LocalDay(dr.end.v) <= LocalDay(now)
           /\ LocalDay(dr.start.v) % DaysPerYear = 0
           /\ LocalDay(dr.start.v) <= LocalDay(dr.end.v)
           /\ LocalDay(dr.end.v) - LocalDay(dr.start.v) < DaysPerYear
      [] dr.preset = "custom" ->
           /\ dr.start \in { ParseDay(d) : d \in CustomDays }
           /\ dr.end \in { ParseDay(d) : d \in CustomDays }
      [] OTHER -> FALSE

SumValues(groups) ==
    LET F[k \in 0..Len(groups)] == IF k = 0 THEN 0 ELSE F[k - 1] + groups[k].value
    IN  F[Len(groups)]

\* C17: the KPI total-request count, the sum of the per-value counts of each
\* chart grouping and the size of the exported collection all equal the
\* number of records that pass both the date-range filter and the chart
\* filters.
C17_ViewsAgree ==
    app = "running" =>
        LET passing == Cardinality({ i \in 1..Len(serviceRequests) :
                           /\ PassesDateRange(serviceRequests[i], dateRange)
                           /\ PassesChartFilters(serviceRequests[i], chartFilters) })
        IN  /\ Len(FilteredData(serviceRequests, chartFilters, dateRange)) = passing
            /\ totalRequests(serviceRequests, dateRange) = passing
            /\ \A d \in Dims :
                  SumValues(GroupBy(ChartsData(serviceRequests, dateRange), d)) = passing

\* Every arrangement of sample records: the sequences of distinct positions.
Arrangements ==
    UNION { { a \in [1..n -> 1..Len(serviceRequests)] :
                \A i, j \in 1..n : i # j => a[i] # a[j] }
            : n \in 0..Len(serviceRequests) }

\* The position at which the value v of dimension d first occurs in data.
FirstAt(data, d, v) ==
    CHOOSE i \in 1..Len(data) :
        data[i][d] = v /\ \A j \in 1..(i - 1) : data[j][d] # v

\* C18: grouping a collection by a dimension yields one (value, count) pair
\* per distinct value present, the count being the number of records with
\* that value, in the order in which the values first occur in the
\* collection.
C18_GroupingFirstOccurrenceOrder ==
    \A a \in Arrangements : \A d \in Dims :
        LET data == ChartsData([i \in 1..Len(a) |-> serviceRequests[a[i]]], dateRange)
            g == GroupBy(data, d)
        IN  /\ { g[j].name : j \in 1..Len(g) } = { data[i][d] : i \in 1..Len(data) }
            /\ \A j, k \in 1..Len(g) : j # k => g[j].name # g[k].name
            /\ \A j \in 1..Len(g) :
                  g[j].value = Cardinality({ i \in 1..Len(data) : data[i][d] = g[j].name })
            /\ \A j, k \in 1..Len(g) :
                  j < k => FirstAt(data, d, g[j].name) < FirstAt(data, d, g[k].name)

\* The custom range of days 2 to 5 leaves SR-1 (Resolved) and SR-2 (In
\* Progress): the status chart lists Resolved before In Progress.
C18_Witness ==
    /\ last.op = "setDateRange"
    /\ dateRange.preset = "custom"
    /\ GroupBy(ChartsData(serviceRequests, dateRange), "status")
         = << [name |-> "Resolved", value |-> 1], [name |-> "In Progress", value |-> 1] >>

\* C19: for the default 7-day window generateSparklineData returns exactly 7
\* points, one per calendar day ending today, each the metric's reducer
\* over the records dated on that day; when all 7 points are zero the
\* result is [1,2,1,3,2,4,3] instead, so the series is never all zero.
C19_SparklinePerDayEndingToday ==
    app = "running" =>
        \A metric \in SparklineMetrics :
            LET data == KPIFilteredData(serviceRequests, dateRange)
                series == generateSparklineData(data, metric, DefaultSparklineDays, now)
                today == LocalDay(now)
                expected == [k \in 1..DefaultSparklineDays |->
                               SparklinePoint(
                                   DayData(data, today - (DefaultSparklineDays - k)),
                                   metric)]
            IN  /\ Len(series) = DefaultSparklineDays
                /\ \E k \in 1..Len(series) : series[k].num # 0
                /\ series = IF \A k \in 1..DefaultSparklineDays : expected[k].num = 0
                            THEN SparklineFallback
                            ELSE expected

\* Window sizes handed to getPreviousPeriodData: the default, and two that
\* put a boundary of the previous period on the day of a sample record.
PeriodSizes == {DefaultPeriodDays, 5, 4}

\* C20: getPreviousPeriodData returns exactly the records whose day d
\* satisfies today - 2N <= d < today - N in calendar days, at whatever time
\* of day it is evaluated.
C20_PreviousPeriodHalfOpen ==
    app = "running" =>
        \A N \in PeriodSizes :
            LET out == getPreviousPeriodData(serviceRequests, N, now)
                today == LocalDay(now)
            IN  \A i \in 1..Len(serviceRequests) :
                    i \in Kept(serviceRequests, out)
                      <=> /\ today - 2 * N <= serviceRequests[i].requestDate
                          /\ serviceRequests[i].requestDate < today - N

\* The guarded part of C21: the averages over an empty collection are 0,
\* and the percent change is (current - previous) / previous * 100 when
\* previous is not zero and absent when it is.
AveragesAndChangeGuarded ==
    /\ Len(KPIFilteredData(cardRequests, dateRange)) = 0 =>
          /\ Cards.current.avgResponseTime = Whole(0)
          /\ Cards.current.avgResolutionTime = Whole(0)
    /\ \A f \in DOMAIN Cards.current :
          LET value == Cards.current[f]
              previous == Cards.previous[f]
              change == Cards.percentChange[f]
          IN  IF previous.num = 0
              THEN change = NoChange
              ELSE /\ change.k = "number"
                   /\ change.n.num * value.den * previous.num
                        = 100 * (value.num * previous.den - previous.num * value.den)
                            * change.n.den

\* C21: every percentage and average of the cards is guarded against a zero
\* denominator: over an empty filtered collection the two averages are 0 and
\* the resolved and in-progress percentages are a finite number, never NaN
\* or Infinity; and the percent change of every card is
\* (current - previous) / previous * 100 when previous is not zero and
\* absent when it is.
C21_ZeroDenominatorsGuarded ==
    (app = "running" /\ table.mounted) =>
        /\ AveragesAndChangeGuarded
        /\ IsFiniteNumber(Cards.resolvedSubtitle)
        /\ IsFiniteNumber(Cards.inProgressSubtitle)

\* Every output of the engine over cardRequests in the store state
\* (cf, dr, th), evaluated at the clock reading t by cards mounted at m.
EngineOutputs(cf, dr, th, t, m) ==
    [filtered |-> FilteredData(cardRequests, cf, dr),
     grouped |-> [d \in Dims |-> GroupBy(ChartsData(cardRequests, dr), d)],
     cards |-> KPICards(cardRequests, dr, th, t, m)]

\* C22: the outputs of the engine are a function of the store state
\* (chartFilters, dateRange, thresholds) and of the records alone: evaluated
\* in the same store state at any clock reading, they equal the outputs
\* evaluated in that store state at the start of the session.
C22_OutputsDependOnStoreStateOnly ==
    (app = "running" /\ table.mounted) =>
        EngineOutputs(chartFilters, dateRange, thresholds, now, table.mountedAt)
          = EngineOutputs(chartFilters, dateRange, thresholds, StartTick, StartTick)

\* C29: under the thresholds of the store, each point of the 'slaBreaches'
\* sparkline is getBreachCount of the records of its day (with the fixed
\* series in place of an all-zero one).
C29_SparklineCountsBreaches ==
    (app = "running" /\ table.mounted) =>
        LET data == KPIFilteredData(cardRequests, dateRange)
            expected ==
                [k \in 1..DefaultSparklineDays |->
                    Whole(getBreachCount(
                        DayData(data, IsoDay(now - (DefaultSparklineDays - k) * TicksPerDay)),
                        thresholds))]
        IN  Cards.sparklineData["slaBreaches"]
              = IF \A k \in 1..DefaultSparklineDays : expected[k].num = 0
                THEN SparklineFallback
                ELSE expected

\* C29 in the states whose thresholds are the default 12 and 72 hours.
SparklineCountsDefaultBreaches ==
    thresholds = defaultThresholds => C29_SparklineCountsBreaches

\* The window the current values of the cards are computed over: the date
\* range of the store, when both of its bounds are set.
HasCurrentWindow == dateRange.start.k = "Date" /\ dateRange.end.k = "Date"

\* C30: the previous values of the cards are computed over a window as long
\* as the current window that ends where the current window begins.
C30_PreviousWindowPrecedesCurrent ==
    (app = "running" /\ table.mounted /\ HasCurrentWindow) =>
        LET previous == PreviousWindow(DefaultPeriodDays, table.mountedAt)
        IN  /\ previous.end.v = dateRange.start.v
            /\ previous.end.v - previous.start.v = dateRange.end.v - dateRange.start.v

\* Two characters that differ at most in case.
SameLetter(a, b) ==
    \/ a = b
    \/ \E k \in 1..Len(UpperCase) :
          {a, b} = {UpperCase[k], LowerCase[k]}

\* The text part occurs in the text whole, whatever the case of the letters.
OccursIn(part, whole) ==
    \E o \in 0..(Len(whole) - Len(part)) :
        \A j \in 1..Len(part) : SameLetter(whole[o + j], part[j])

\* The six column selects of the table and the field each one filters, and
\* the field of each chart filter.
ColumnField ==
    [verticalFilter |-> "vertical", statusFilter |-> "status",
     categoryFilter |-> "issueCategory", urgencyFilter |-> "urgency",
     priorityFilter |-> "priority", healthFilter |-> "accountHealth"]

\* The record is one the table shows in the current state.
ShownInTable(item) ==
    /\ PassesDateRange(item, dateRange)
    /\ OccursIn(table.search, item.accountName) \/ OccursIn(table.search, item.requestId)
    /\ \A column \in ColumnFilters :
          table[column] # "" => item[ColumnField[column]] = table[column]
    /\ \A d \in Dims : chartFilters[d] # NULL => item[d] = chartFilters[d]

FilterChanges ==
    /\ table.mounted /\ table'.mounted
    /\ \/ table'.search # table.search
       \/ \E column \in ColumnFilters : table'[column] # table[column]
       \/ chartFilters' # chartFilters
       \/ dateRange' # dateRange

\* C24: a change of the search text, of a local column filter, of a chart
\* filter or of the date range is followed by currentPage = 1.
C24_PageResetOnFilterChange == [][FilterChanges => table'.currentPage = 1]_vars

\* C24 for the changes made through the table's own controls.
PageResetOnLocalChange ==
    [][(FilterChanges /\ last'.op = "table") => table'.currentPage = 1]_vars

\* paginatedData: the rows of the displayed page.
paginatedData ==
    SubSeq(TableRows, (table.currentPage - 1) * ITEMS_PER_PAGE + 1,
           Min(table.currentPage * ITEMS_PER_PAGE, Len(TableRows)))

\* C25: 1 <= currentPage <= max(1, totalPages) with totalPages =
\* ceil(rows / 50), so the displayed page of a non-empty result is not empty.
C25_PageWithinBounds ==
    table.mounted =>
        /\ TablePages * ITEMS_PER_PAGE >= Len(TableRows)
        /\ (TablePages - 1) * ITEMS_PER_PAGE < Max(1, Len(TableRows))
        /\ 1 <= table.currentPage
        /\ table.currentPage <= Max(1, TablePages)
        /\ TableRows # <<>> => paginatedData # <<>>

\* C25 for the Previous and Next controls: from a page within the bounds
\* they lead to a page within the bounds.
PagingStaysWithinBounds ==
    [][(last'.op = "table" /\ table'.currentPage # table.currentPage
          /\ table'.currentPage # 1)
         => (1 <= table'.currentPage /\ table'.currentPage <= Max(1, TablePages))]_vars

\* C26: the sort state starts as (requestDate, desc); handleSort(k) on the
\* active key k flips the direction and keeps the key, handleSort(k) on
\* another key makes k the key and the direction asc; there is always one
\* active key, and the direction is asc or desc.
C26_SortStateMachine ==
    [][/\ ~table.mounted =>
            (table.sortKey = "requestDate" /\ table.sortDirection = "desc")
       /\ table'.sortKey \in SortKeys
       /\ table'.sortDirection \in {"asc", "desc"}
       /\ last'.op = "handleSort" =>
            IF last'.key = table.sortKey
            THEN /\ table'.sortKey = table.sortKey
                 /\ table'.sortDirection # table.sortDirection
            ELSE /\ table'.sortKey = last'.key
                 /\ table'.sortDirection = "asc"
       /\ last'.op # "handleSort" =>
            /\ table'.sortKey = table.sortKey
            /\ table'.sortDirection = table.sortDirection]_vars

C26_Witness ==
    /\ last.op = "handleSort"
    /\ table.sortKey = "timeToRespond"
    /\ table.sortDirection = "desc"

Reverse(rows) == [k \in 1..Len(rows) |-> rows[Len(rows) + 1 - k]]

\* The rows the table displays, in order.
TableSorted == sortedData(TableRows, table.sortKey, table.sortDirection)

\* C27: the rows sorted on a key in descending direction are the reverse of
\* the same rows sorted on that key in ascending direction, also when
\* several rows have equal values for the key.
C27_DescIsReverseOfAsc ==
    table.mounted =>
        sortedData(TableRows, table.sortKey, "desc")
          = Reverse(sortedData(TableRows, table.sortKey, "asc"))

\* C27 in the states where no two rows have equal values for the sort key.
DescIsReverseWithoutTies ==
    LET rows == TableRows
        keys == { rows[i][table.sortKey] : i \in 1..Len(rows) }
    IN  Cardinality(keys) = Len(rows) => C27_DescIsReverseOfAsc

\* A check of sortedData: its result is a rearrangement of the rows in which
\* no row is followed by one the comparator puts before it.
SortedDataIsSorted ==
    table.mounted =>
        LET rows == TableRows
            sorted == TableSorted
        IN  /\ Len(sorted) = Len(rows)
            /\ { sorted[j] : j \in 1..Len(sorted) } = { rows[i] : i \in 1..Len(rows) }
            /\ \A j \in 1..(Len(sorted) - 1) :
                  SortCompare(sorted[j], sorted[j + 1],
                              table.sortKey, table.sortDirection) <= 0

\* The local column filter of each chart-filter dimension.
LocalFilterOf ==
    [vertical |-> "verticalFilter", status |-> "statusFilter",
     issueCategory |-> "categoryFilter", accountHealth |-> "healthFilter"]

\* The selection of a column select that shows the chart-filter value v.
AsSelection(v) == IF v = NULL THEN "" ELSE v

\* A step of the shown table that changes the chart filter of dimension d.
ChartFilterChanges(d) ==
    table.mounted /\ table'.mounted /\ chartFilters'[d] # chartFilters[d]

\* C28: when a chart filter changes, the local column filter of its
\* dimension takes the chart filter's value, and is cleared when the chart
\* filter becomes null; a change made with the table's controls never
\* modifies chartFilters.
C28_ChartOverwritesLocal ==
    [][/\ \A d \in Dims :
            ChartFilterChanges(d) =>
                table'[LocalFilterOf[d]] = AsSelection(chartFilters'[d])
       /\ last'.op \in {"table", "handleSort"} => chartFilters' = chartFilters]_vars

\* C28 without the clearing: a chart filter that changes to a value
\* overwrites the local filter, and the table never writes chartFilters.
ChartValueOverwritesLocal ==
    [][/\ \A d \in Dims :
            (ChartFilterChanges(d) /\ chartFilters'[d] # NULL) =>
                table'[LocalFilterOf[d]] = chartFilters'[d]
       /\ last'.op \in {"table", "handleSort"} => chartFilters' = chartFilters]_vars

====
